---------------------------- MODULE Spec2Model ----------------------------
(***************************************************************************)
(* State-transition engine of the startup simulator (StartupEnv.step and   *)
(* the business_logic functions), with the process-wide random generator   *)
(* the business logic draws from.                                          *)
(*                                                                         *)
(* Representation of the floating-point fields (rounding is by floor):     *)
(*   mrr, cash, cac, ltv, spend          whole dollars                     *)
(*   price                               cents                             *)
(*   interest_rate, unemployment,                                          *)
(*   consumer_confidence                 tenths                            *)
(*   churn_*, product_quality,                                             *)
(*   valuation_multiple, innovation_factor, rates and factors   1/10000    *)
(*   price_change_pct, elasticity, alpha hundredths                        *)
(*   reward                              millionths                        *)
(*   rule_of_40                          whole percent                     *)
(* A value of random.random() is u / UDen.                                 *)
(***************************************************************************)
EXTENDS Integers, Sequences, FiniteSets, TLC

VARIABLES
    state,      \* state[e]: the EnvState of environment e, or None before reset
    np_random,  \* np_random[e]: seed of the generator gym's reset(seed) sets
    ret,        \* ret[e]: what the last step of e returned, with step's locals
    acts,       \* acts[e]: the actions stepped since the last reset of e
    rng,        \* the global generator of module random: [seed, pos]
    tape,       \* tape[s]: the values the stream seeded with s has yielded
    solo        \* solo[e]: the episode of e run alone on the stream it started on

vars == <<state, np_random, ret, acts, rng, tape, solo>>

----------------------------------------------------------------------------
(* Bounds of the model *)

\* random.random() is drawn from {0/UDen, 1/UDen}
UDen == 2
\* Spec explores the first MaxMonths months of an episode
MaxMonths == 2
\* SpecLong steps up to LongSlack months past the truncation horizon
LongSlack == 2
\* SpecLong lets the interest-rate shock fire in a streak of MaxStreak months
MaxStreak == 21
\* SpecMacro explores the first MaxMacroMonths months of an episode
MaxMacroMonths == 9
\* SpecEpisodes explores the first MaxEpisodeMonths months of each episode
MaxEpisodeMonths == 2
\* SpecDegenerate explores the first MaxDegenerateSteps calls of step
MaxDegenerateSteps == 3
\* SpecDecode explores the first MaxDecodeMonths months of an episode
MaxDecodeMonths == 1
\* SpecHysteresis forces the confidence of MaxForcedSteps consecutive steps,
\* from states with months_in_depression up to MaxStartDepression
MaxForcedSteps == 7
MaxStartDepression == 2
MaxMidEpisode == 2
MaxSlumpMonths == 98
MaxRateShocks == 3
MaxCascadeMonth == 8
MaxPricingMonths == 3
MaxInvestMonths == 25
MaxRunnerShocks == 44
\* the extreme price change is explored from an mrr of at most JumpCap
JumpCap == 200000

----------------------------------------------------------------------------
(* Fixed-point arithmetic *)

Scale == 100 * 100

Max(a, b) == IF a >= b THEN a ELSE b
Min(a, b) == IF a <= b THEN a ELSE b

\* floor(a * b / c) for c > 0, without forming a * b
MulDiv(a, b, c) == (a \div c) * b + ((a % c) * b) \div c

\* x * f for a factor f in 1/10000
Times(x, f) == MulDiv(x, f, Scale)

\* Python's int() of the real a / b, b > 0: truncation toward zero
Trunc(a, b) == IF a >= 0 THEN a \div b ELSE -((-a) \div b)

RECURSIVE SqrtSearch(_, _, _)
SqrtSearch(n, lo, hi) ==
    IF lo >= hi THEN lo
    ELSE CHOOSE r \in {IF mid * mid <= n THEN SqrtSearch(n, mid, hi)
                                          ELSE SqrtSearch(n, lo, mid - 1) :
                          mid \in {(lo + hi + 1) \div 2}} : TRUE

\* floor(sqrt(n)), 0 <= n < 2^30
ISqrt(n) == CHOOSE r \in {SqrtSearch(x, 0, 32767) : x \in {n}} : TRUE

RECURSIVE PowK(_, _)
\* r^k for r in thousandths, in thousandths
PowK(r, k) == IF k = 0 THEN 1000 ELSE MulDiv(PowK(r, k - 1), r, 1000)

\* math.exp(-0.15 * max(1, months * 0.4)), floored at 0.3
ExpTable == <<8607, 8607, 8607, 8352, 7866, 7408, 6976, 6570, 6187, 5827,
              5488, 5168, 4867, 4584, 4317, 4065, 3828, 3605, 3395, 3198, 3011>>

\* 1 / (1 + exp(-x)) at x = -6 .. 6
LogisticTable == <<25, 67, 180, 474, 1192, 2689, 5000, 7311, 8808, 9526,
                   9820, 9933, 9975>>

----------------------------------------------------------------------------
(* random *)

\* random.random() < prob, prob in 1/10000
Below(u, prob) == u * Scale < prob * UDen

\* random.uniform(lo, hi)
Uniform(lo, hi, u) == lo + ((hi - lo) * u) \div UDen

----------------------------------------------------------------------------
(* business_logic: shocks *)

\* an interest-rate shock that raises every churn rate
RateShockHitsAllChurn(s, u) ==
    IF Below(u, 1000)
    THEN [s EXCEPT !.interest_rate = @ + 15,
                   !.valuation_multiple = MulDiv(@, 85, 100),
                   !.churn_smb = MulDiv(@, 12, 10),
                   !.churn_b2c = MulDiv(@, 12, 10)]
    ELSE s

interest_rate_shock(s, u) ==
    IF Below(u, 1000)
    THEN [s EXCEPT !.interest_rate = @ + 15,
                   !.valuation_multiple = MulDiv(@, 85, 100),
                   !.churn_smb = MulDiv(@, 12, 10)]
    ELSE s

consumer_confidence_shock(s, u) ==
    IF Below(u, 1000)
    THEN [s EXCEPT !.consumer_confidence = @ - 200,
                   !.unemployment = @ + 10]
    ELSE s

\* math.exp(-market_attractiveness) raises OverflowError when its argument
\* exceeds 709.78, that is for mrr below about -35,439,000
ExpOverflows(mrr) == (mrr - 50000) \div 50000 < -710

\* 1 / (1 + math.exp(-market_attractiveness)) where math.exp returns: a
\* positive value below the table's first, the table, a value short of 1, and
\* from market_attractiveness 37 on exactly 1.0, math.exp(-37) being less than
\* half the gap between 1.0 and the next double
dynamic_prob(mrr) ==
    LET x == (mrr - 50000) \div 50000
    IN  IF x < -6 THEN 1
        ELSE IF x > 36 THEN Scale
        ELSE IF x > 6 THEN Scale - 1
        ELSE LogisticTable[x + 7]

competitive_entry_prob(mrr) == MulDiv(2 * dynamic_prob(mrr), 1000, Scale)

competitive_entry_shock(s, u) ==
    IF Below(u, Max(1, competitive_entry_prob(s.mrr)))
    THEN [s EXCEPT !.competitors = @ + 1,
                   !.price = MulDiv(@, 9, 10)]
    ELSE s

cascade_armed(s) == s.unemployment > 80 /\ s.interest_rate > 70

apply_recession_cascade(s, u) ==
    IF cascade_armed(s) /\ Below(u, 2000)
    THEN [s EXCEPT !.consumer_confidence = @ - 100,
                   !.valuation_multiple = MulDiv(@, 8, 10),
                   !.unemployment = @ + 5]
    ELSE s

\* a hysteresis rule that scars one month late
HysteresisLate(s) ==
    LET m == IF s.consumer_confidence < 500
             THEN s.months_in_depression + 1
             ELSE Max(0, s.months_in_depression - 1)
    IN  [s EXCEPT !.months_in_depression = m,
                  !.innovation_factor = IF m > 6 THEN MulDiv(@, 95, 100) ELSE @]

\* a hysteresis rule whose counter restarts at 0 when confidence is 50 or more
HysteresisResets(s) ==
    LET m == IF s.consumer_confidence < 500
             THEN s.months_in_depression + 1
             ELSE 0
    IN  [s EXCEPT !.months_in_depression = m,
                  !.innovation_factor = IF m >= 6 THEN MulDiv(@, 95, 100) ELSE @]

\* a hysteresis rule that scars in the sixth month only
HysteresisOnce(s) ==
    LET m == IF s.consumer_confidence < 500
             THEN s.months_in_depression + 1
             ELSE Max(0, s.months_in_depression - 1)
    IN  [s EXCEPT !.months_in_depression = m,
                  !.innovation_factor = IF m = 6 THEN MulDiv(@, 95, 100) ELSE @]

\* a hysteresis rule whose counter is not floored
HysteresisNoFloor(s) ==
    LET m == IF s.consumer_confidence < 500
             THEN s.months_in_depression + 1
             ELSE s.months_in_depression - 1
    IN  [s EXCEPT !.months_in_depression = m,
                  !.innovation_factor = IF m >= 6 THEN MulDiv(@, 95, 100) ELSE @]

apply_hysteresis(s) ==
    LET m == IF s.consumer_confidence < 500
             THEN s.months_in_depression + 1
             ELSE Max(0, s.months_in_depression - 1)
    IN  [s EXCEPT !.months_in_depression = m,
                  !.innovation_factor = IF m >= 6 THEN MulDiv(@, 95, 100) ELSE @]

RecoveryOvershoots(s) ==
    [s EXCEPT
       !.innovation_factor = IF @ <= Scale THEN @ + 10 ELSE @,
       !.valuation_multiple = IF @ < 10 * Scale THEN @ + 500
                              ELSE IF @ > 10 * Scale THEN @ - 500 ELSE @,
       !.consumer_confidence =
           IF @ < 1000 /\ s.unemployment < 80 THEN @ + 20 ELSE @]

\* a recovery in which unemployment, too, reverts to its initial 4.0
RecoveryEasesUnemployment(s) ==
    [s EXCEPT
       !.innovation_factor = IF @ < Scale THEN @ + 10 ELSE @,
       !.valuation_multiple = IF @ < 10 * Scale THEN @ + 500
                              ELSE IF @ > 10 * Scale THEN @ - 500 ELSE @,
       !.consumer_confidence =
           IF @ < 1000 /\ s.unemployment < 80 THEN @ + 20 ELSE @,
       !.unemployment = IF @ > 40 THEN @ - 5 ELSE @]

\* a recovery whose confidence gain ignores unemployment
RecoveryIgnoresUnemployment(s) ==
    [s EXCEPT
       !.innovation_factor = IF @ < Scale THEN @ + 10 ELSE @,
       !.valuation_multiple = IF @ < 10 * Scale THEN @ + 500
                              ELSE IF @ > 10 * Scale THEN @ - 500 ELSE @,
       !.consumer_confidence = IF @ < 1000 THEN @ + 20 ELSE @]

apply_recovery(s) ==
    [s EXCEPT
       !.innovation_factor = IF @ < Scale THEN @ + 10 ELSE @,
       !.valuation_multiple = IF @ < 10 * Scale THEN @ + 500
                              ELSE IF @ > 10 * Scale THEN @ - 500 ELSE @,
       !.consumer_confidence =
           IF @ < 1000 /\ s.unemployment < 80 THEN @ + 20 ELSE @]

----------------------------------------------------------------------------
(* business_logic: transition physics *)

\* a response that never saturates: beta * (spend / gamma)^alpha
HillUnsaturated(spend, alpha, beta, gamma) ==
    IF spend <= 0 THEN 0
    ELSE LET half == ISqrt(((spend * 1000) \div gamma) * 1000)
             r    == ISqrt(half * 1000)
             p    == PowK(r, alpha \div 25)
         IN  MulDiv(beta, p, 1000)

\* beta * spend^alpha / (gamma^alpha + spend^alpha); alpha is a multiple of 0.25
hill_response(spend, alpha, beta, gamma) ==
    IF spend <= 0 THEN 0
    ELSE LET half == ISqrt(((spend * 1000) \div gamma) * 1000)
             r    == ISqrt(half * 1000)
             p    == PowK(r, alpha \div 25)
         IN  beta - MulDiv(beta, 1000, 1000 + p)

compute_new_mrr(s, a, uAlpha, uGamma, uBeta) ==
    LET alpha == IF a.channel = "ppc" THEN Uniform(50, 100, uAlpha)
                                      ELSE Uniform(150, 300, uAlpha)
        gamma == Uniform(15000, 50000, uGamma)
        beta  == IF a.channel = "ppc" THEN Uniform(10000, 50000, uBeta)
                                      ELSE Uniform(50000, 100000, uBeta)
        response == hill_response(a.spend, alpha, beta, gamma)
        r1 == IF s.consumer_confidence < 800 THEN MulDiv(response, 85, 100)
              ELSE IF s.consumer_confidence > 1200 THEN MulDiv(response, 108, 100)
              ELSE response
    IN  IF s.competitors >= 10 THEN MulDiv(r1, 6, 10)
        ELSE IF s.competitors >= 4 THEN MulDiv(r1, 8, 10)
        ELSE r1

tenure_decay(months) ==
    IF months + 1 <= Len(ExpTable) THEN ExpTable[months + 1] ELSE 3000

compute_churn_rate(s) ==
    LET base == (s.churn_enterprise + s.churn_smb + s.churn_b2c) \div 3
        quality_factor == Scale - s.product_quality \div 2
        macro_multiplier == IF s.consumer_confidence < 800 THEN 13000 ELSE Scale
        decay_multiplier == Max(3000, tenure_decay(s.months_elapsed))
    IN  Times(Times(Times(base, quality_factor), macro_multiplier),
              decay_multiplier)

compute_expansion_mrr(s, a) ==
    LET effective_rnd == Times(a.r_and_d_spend, s.innovation_factor)
        upsell_factor == Scale + Min(effective_rnd \div 5, 5000)
    IN  Times(MulDiv(s.mrr, 2, 100), upsell_factor)

apply_pricing_effect(s, a, uElasticity) ==
    LET elasticity == Uniform(-90, -20, uElasticity)
        demand_change == elasticity * a.price_change_pct
    IN  [s EXCEPT !.price = MulDiv(@, 100 + a.price_change_pct, 100),
                  !.mrr = Times(MulDiv(@, 100 + a.price_change_pct, 100),
                                Scale + demand_change)]

compute_cac(marketing_spend, new_users) ==
    IF new_users <= 0 THEN 0 ELSE (marketing_spend * 1000) \div new_users

scale_cac_by_macro(raw_cac, s) ==
    LET m1 == IF s.interest_rate > 50 THEN 12000 ELSE Scale
        m2 == IF s.consumer_confidence < 800 THEN Times(m1, 13000)
              ELSE IF s.consumer_confidence > 1200 THEN Times(m1, 8000)
              ELSE m1
        m3 == IF s.competitors > 5 THEN Times(m2, 11500) ELSE m2
        m4 == IF s.competitors >= 8 THEN Times(m3, 13000) ELSE m3
    IN  Times(raw_cac, m4)

compute_ltv(mrr_per_user, churn_rate) ==
    (mrr_per_user * 100) \div (IF churn_rate <= 10 THEN 10 ELSE churn_rate)

----------------------------------------------------------------------------
(* business_logic: rule of 40 and reward *)

compute_rule_of_40(prev_mrr, new_mrr, burn) ==
    LET prev == IF prev_mrr <= 0 THEN 1 ELSE prev_mrr
        new  == IF new_mrr <= 0 THEN 1 ELSE new_mrr
    IN  MulDiv(new - prev, 100, prev) + MulDiv(-burn, 100, new)

\* a reward whose first tier is charged above the threshold instead of below
RewardTierInverted(s, rule_of_40) ==
    s.mrr
    - (IF rule_of_40 >= 15 THEN 2000000 ELSE 0)
    - (IF rule_of_40 < 0 THEN 5000000 ELSE 0)
    - (IF s.cac > 0 /\ s.ltv > 0 /\ s.ltv < 3 * s.cac THEN 5000000 ELSE 0)
    - (IF s.cac > 0 /\ s.ltv > 0 /\ s.ltv < s.cac THEN 10000000 ELSE 0)
    - (IF s.cash <= 0 THEN 20000000 ELSE 0)
    - (IF s.innovation_factor < 8000 THEN 5000000 ELSE 0)
    - (IF s.valuation_multiple < 5 * Scale THEN 2000000 ELSE 0)

\* a reward whose crisis penalty replaces the ratio penalty instead of adding
RewardCrisisReplaces(s, rule_of_40) ==
    s.mrr
    - (IF rule_of_40 < 15 THEN 2000000 ELSE 0)
    - (IF rule_of_40 < 0 THEN 5000000 ELSE 0)
    - (IF s.cac > 0 /\ s.ltv > 0 /\ s.ltv < s.cac THEN 10000000
       ELSE IF s.cac > 0 /\ s.ltv > 0 /\ s.ltv < 3 * s.cac THEN 5000000
       ELSE 0)
    - (IF s.cash <= 0 THEN 20000000 ELSE 0)
    - (IF s.innovation_factor < 8000 THEN 5000000 ELSE 0)
    - (IF s.valuation_multiple < 5 * Scale THEN 2000000 ELSE 0)

compute_reward(s, rule_of_40) ==
    s.mrr
    - (IF rule_of_40 < 15 THEN 2000000 ELSE 0)
    - (IF rule_of_40 < 0 THEN 5000000 ELSE 0)
    - (IF s.cac > 0 /\ s.ltv > 0 /\ s.ltv < 3 * s.cac THEN 5000000 ELSE 0)
    - (IF s.cac > 0 /\ s.ltv > 0 /\ s.ltv < s.cac THEN 10000000 ELSE 0)
    - (IF s.cash <= 0 THEN 20000000 ELSE 0)
    - (IF s.innovation_factor < 8000 THEN 5000000 ELSE 0)
    - (IF s.valuation_multiple < 5 * Scale THEN 2000000 ELSE 0)

----------------------------------------------------------------------------
(* StartupEnv *)

Envs == {"env1", "env2"}
Seeds == {"s1"}
Streams == Seeds \cup {"entropy"}

None == [none |-> TRUE]

\* the truncation horizon of step
Horizon == 120
\* sim_config
MAX_STEPS == 52 * 5
INITIAL_CASH == 1000000
BASE_CAC == 50
INITIAL_PRODUCT_QUALITY == 1000
MAX_CHURN == 3000

\* the EnvState reset builds
InitialState ==
    [mrr |-> 50000, cash |-> INITIAL_CASH, cac |-> BASE_CAC, ltv |-> 7000,
     churn_enterprise |-> 100, churn_smb |-> 300, churn_b2c |-> 500,
     interest_rate |-> 30, consumer_confidence |-> 1000, competitors |-> 5,
     product_quality |-> INITIAL_PRODUCT_QUALITY, price |-> 5000,
     months_elapsed |-> 0, headcount |-> 1,
     valuation_multiple |-> 10 * Scale, unemployment |-> 40,
     innovation_factor |-> Scale, months_in_depression |-> 0]

\* an ActionBundle: marketing, hiring, product, pricing
Bundle(spend, channel, hires, cost, rnd, pct) ==
    [spend |-> spend, channel |-> channel, hires |-> hires,
     cost_per_employee |-> cost, r_and_d_spend |-> rnd,
     price_change_pct |-> pct]

\* v bound to its value, then F of it
Then(v, F(_)) == CHOOSE r \in {F(x) : x \in {v}} : TRUE

\* The frame of one call of step: the EnvState s being mutated, the bundle a,
\* the values w the global generator yields from its position on, the number k
\* of values drawn so far, the functions that drew them, and the locals of step.
Frame(s, a, w) ==
    [s |-> s, a |-> a, w |-> w, k |-> 0, drew |-> <<>>,
     prev_mrr |-> s.mrr, new_mrr |-> 0,
     expansion |-> 0, churn_rate |-> 0, collected |-> 0, hires |-> 0,
     cash_at_hiring |-> 0, one_time_hiring_cost |-> 0, salary_burn |-> 0,
     total_spend |-> 0, rule40 |-> 0, reward |-> 0]

\* one call of random.random() or random.uniform() by function who
Draw(f, who) == [f EXCEPT !.k = @ + 1, !.drew = Append(@, who)]

ShockInterest(f) ==
    [Draw(f, "interest_rate_shock") EXCEPT
        !.s = interest_rate_shock(f.s, f.w[f.k + 1])]

\* a confidence shock that draws only when the interest-rate shock did not fire
ShockConfidenceLazy(f) ==
    IF Below(f.w[1], 1000)
    THEN f
    ELSE [Draw(f, "consumer_confidence_shock") EXCEPT
             !.s = consumer_confidence_shock(f.s, f.w[f.k + 1])]

ShockConfidence(f) ==
    [Draw(f, "consumer_confidence_shock") EXCEPT
        !.s = consumer_confidence_shock(f.s, f.w[f.k + 1])]

ShockEntry(f) ==
    [Draw(f, "competitive_entry_shock") EXCEPT
        !.s = competitive_entry_shock(f.s, f.w[f.k + 1])]

\* a cascade that draws whether armed or not
CascadeAlwaysDraws(f) ==
    [Draw(f, "apply_recession_cascade") EXCEPT
        !.s = apply_recession_cascade(f.s, f.w[f.k + 1])]

\* the cascade draws only when unemployment and interest rate arm it
Cascade(f) ==
    IF cascade_armed(f.s)
    THEN [Draw(f, "apply_recession_cascade") EXCEPT
             !.s = apply_recession_cascade(f.s, f.w[f.k + 1])]
    ELSE f

Hysteresis(f) == [f EXCEPT !.s = apply_hysteresis(f.s)]
Recovery(f) == [f EXCEPT !.s = apply_recovery(f.s)]

Physics(f) ==
    [Draw(Draw(Draw(f, "compute_new_mrr"), "compute_new_mrr"), "compute_new_mrr")
     EXCEPT   !.new_mrr = compute_new_mrr(f.s, f.a, f.w[f.k + 1], f.w[f.k + 2],
                                          f.w[f.k + 3]),
              !.expansion = compute_expansion_mrr(f.s, f.a),
              !.churn_rate = compute_churn_rate(f.s)]

UpdateMrr(f) ==
    [f EXCEPT !.s.mrr = Times(@, Scale - f.churn_rate) + f.new_mrr + f.expansion]

\* cash += mrr
CollectRevenue(f) ==
    [f EXCEPT !.s.cash = @ + f.s.mrr, !.collected = f.s.mrr]

Pricing(f) ==
    [Draw(f, "apply_pricing_effect") EXCEPT
        !.s = apply_pricing_effect(f.s, f.a, f.w[f.k + 1])]

\* the CFO clamp: the hires that are applied
ClampOffByOne(cash, a) ==
    IF a.hires > 0
    THEN LET max_hires == Trunc(cash, 18 * a.cost_per_employee)
         IN  IF a.hires > max_hires + 1 THEN max_hires + 1 ELSE a.hires
    ELSE a.hires

applied_hires(cash, a) ==
    IF a.hires > 0
    THEN LET max_hires == Trunc(cash, 18 * a.cost_per_employee)
         IN  IF a.hires > max_hires THEN max_hires ELSE a.hires
    ELSE a.hires

\* apply_hiring_cost and headcount += hires
Hiring(f) ==
    [f EXCEPT !.hires = applied_hires(f.s.cash, f.a),
              !.cash_at_hiring = f.s.cash,
              !.one_time_hiring_cost =
                  applied_hires(f.s.cash, f.a) * f.a.cost_per_employee,
              !.s.cash = @ - applied_hires(f.s.cash, f.a) * f.a.cost_per_employee,
              !.s.headcount = @ + applied_hires(f.s.cash, f.a)]

BurnDoubleCountsHiring(f) ==
    [f EXCEPT !.salary_burn = f.s.headcount * 8000,
              !.total_spend = f.a.spend + f.a.r_and_d_spend,
              !.s.cash = @ - (f.one_time_hiring_cost + f.s.headcount * 8000
                              + f.a.spend + f.a.r_and_d_spend)]

Burn(f) ==
    [f EXCEPT !.salary_burn = f.s.headcount * 8000,
              !.total_spend = f.a.spend + f.a.r_and_d_spend,
              !.s.cash = @ - (f.s.headcount * 8000
                              + (f.a.spend + f.a.r_and_d_spend))]

\* estimated_new_users, in thousandths
estimated_new_users(new_mrr, price) == MulDiv(new_mrr * 1000, 100, price)

UnitEconomics(f) ==
    [f EXCEPT !.s.cac = IF f.s.price > 0
                        THEN scale_cac_by_macro(
                               compute_cac(f.a.spend,
                                   estimated_new_users(f.new_mrr, f.s.price)),
                               f.s)
                        ELSE @,
              !.s.ltv = compute_ltv(f.s.price, f.churn_rate)]

Rule40(f) ==
    [f EXCEPT !.rule40 = compute_rule_of_40(f.prev_mrr, f.s.mrr,
                  f.one_time_hiring_cost + f.salary_burn + f.total_spend)]

\* a reward that reads the cash held before the month's spending
RewardBeforeBurn(f) ==
    [f EXCEPT !.reward = compute_reward([f.s EXCEPT !.cash = f.cash_at_hiring
                                                        - f.one_time_hiring_cost],
                                        f.rule40)]

Reward(f) == [f EXCEPT !.reward = compute_reward(f.s, f.rule40)]

Advance(f) == [f EXCEPT !.s.months_elapsed = @ + 1]

\* terminated = cash <= 0, and a variant that lets a balance of 0 live
TerminatedBelowZero(cash) == cash < 0
Terminated(cash) == cash <= 0

\* truncated = months_elapsed >= 120, and a variant one month late
TruncatedLate(months_elapsed) == months_elapsed > Horizon
Truncated(months_elapsed) == months_elapsed >= Horizon

\* what step hands back: the new EnvState, the returned tuple with the locals
\* of step, and the number of values drawn
Return(f) ==
    [state |-> f.s,
     ret |-> [reward |-> f.reward,
              terminated |-> Terminated(f.s.cash),
              truncated |-> Truncated(f.s.months_elapsed),
              rule_of_40 |-> f.rule40,
              action |-> f.a, drew |-> f.drew,
              prev_mrr |-> f.prev_mrr, new_mrr |-> f.new_mrr,
              expansion |-> f.expansion, churn_rate |-> f.churn_rate,
              collected |-> f.collected, hires |-> f.hires,
              cash_at_hiring |-> f.cash_at_hiring,
              one_time_hiring_cost |-> f.one_time_hiring_cost,
              salary_burn |-> f.salary_burn, total_spend |-> f.total_spend],
     ndraws |-> f.k]

\* max_hires = int((cash / 18.0) / cost_per_employee) divides by zero
ZeroDivision(f) == f.a.hires > 0 /\ f.a.cost_per_employee = 0

\* the exception leaves step: the EnvState stays as mutated so far
Raise(f) ==
    [state |-> f.s,
     ret |-> [raised |-> "ZeroDivisionError", action |-> f.a, drew |-> f.drew],
     ndraws |-> f.k]

\* competitive_entry_shock raises before it draws or mutates
RaiseOverflow(f) ==
    [state |-> f.s,
     ret |-> [raised |-> "OverflowError", action |-> f.a, drew |-> f.drew],
     ndraws |-> f.k]

\* step from the hiring constraint on
Settle(f) ==
    IF ZeroDivision(f) THEN Raise(f)
    ELSE Then(Then(Then(Then(Then(Then(Then(f,
             Hiring), Burn), UnitEconomics), Rule40), Reward), Advance), Return)

\* feedback modules in which recovery runs before the hysteresis check
MacroRecoversFirst(f) ==
    Then(Then(Then(Then(Then(Then(f,
        ShockInterest), ShockConfidence), ShockEntry),
        Cascade), Recovery), Hysteresis)

\* the shocks and the feedback modules of step, in its order
Macro(f) ==
    Then(Then(Then(Then(Then(Then(f,
        ShockInterest), ShockConfidence), ShockEntry),
        Cascade), Hysteresis), Recovery)

\* a step that applies the pricing effect before it credits cash
StepPricesFirst(s, a, w) ==
    IF ExpOverflows(s.mrr)
    THEN Then(Then(Then(Frame(s, a, w),
             ShockInterest), ShockConfidence), RaiseOverflow)
    ELSE Then(Then(Then(Then(Then(
             Macro(Frame(s, a, w)),
             Physics), UpdateMrr), Pricing), CollectRevenue), Settle)

\* One call of step on EnvState s with bundle a, in the order of the code
StepResult(s, a, w) ==
    IF ExpOverflows(s.mrr)
    THEN Then(Then(Then(Frame(s, a, w),
             ShockInterest), ShockConfidence), RaiseOverflow)
    ELSE Then(Then(Then(Then(Then(
             Macro(Frame(s, a, w)),
             Physics), UpdateMrr), CollectRevenue), Pricing), Settle)

----------------------------------------------------------------------------
(* StartupEnv.step: decoding of action_dict *)

\* a field value that is the number n, and one no number can be read from
Num(n) == [num |-> TRUE, v |-> n]
Text == [num |-> FALSE]

\* a value that is no mapping
NotMapping == [mapping |-> FALSE]
\* the mapping with the items of the function items
Mapping(items) == [mapping |-> TRUE, items |-> items]

Categories == {"marketing", "hiring", "product", "pricing"}

\* the default sub-record of action_dict.get
Default(c) ==
    CASE c = "marketing" -> Mapping([spend |-> Num(0), channel |-> "ppc"])
      [] c = "hiring" -> Mapping([hires |-> Num(0), cost_per_employee |-> Num(10000)])
      [] c = "product" -> Mapping([r_and_d_spend |-> Num(0)])
      [] c = "pricing" -> Mapping([price_change_pct |-> Num(0)])

\* field k of the mapping m is present and a number >= lo
AtLeast(m, k, lo) == k \in DOMAIN m /\ m[k].num /\ m[k].v >= lo
IsNumber(m, k) == k \in DOMAIN m /\ m[k].num

\* the pydantic model of category c accepts the sub-record r
Accepts(c, r) ==
    /\ r.mapping
    /\ CASE c = "marketing" ->
               /\ AtLeast(r.items, "spend", 0)
               /\ "channel" \in DOMAIN r.items
               /\ r.items.channel \in {"ppc", "brand"}
         [] c = "hiring" ->
               /\ AtLeast(r.items, "hires", 0)
               /\ AtLeast(r.items, "cost_per_employee", 0)
         [] c = "product" -> AtLeast(r.items, "r_and_d_spend", 0)
         [] c = "pricing" -> IsNumber(r.items, "price_change_pct")

\* the sub-record of category c that action_dict.get yields
Get(d, c) == IF c \in DOMAIN d.items THEN d.items[c] ELSE Default(c)

\* a decoder whose fallback replaces only the categories that fail
DecodePerCategory(d) ==
    IF ~d.mapping THEN Bundle(0, "ppc", 0, 10000, 0, 0)
    ELSE LET Sub(c) == IF Accepts(c, Get(d, c)) THEN Get(d, c).items
                       ELSE Default(c).items
         IN  Bundle(Sub("marketing").spend.v, Sub("marketing").channel,
                    Sub("hiring").hires.v, Sub("hiring").cost_per_employee.v,
                    Sub("product").r_and_d_spend.v,
                    Sub("pricing").price_change_pct.v)

\* the try block of step and its except branch
DecodeAction(d) ==
    IF d.mapping /\ \A c \in Categories : Accepts(c, Get(d, c))
    THEN Bundle(Get(d, "marketing").items.spend.v,
                Get(d, "marketing").items.channel,
                Get(d, "hiring").items.hires.v,
                Get(d, "hiring").items.cost_per_employee.v,
                Get(d, "product").items.r_and_d_spend.v,
                Get(d, "pricing").items.price_change_pct.v)
    ELSE Bundle(0, "ppc", 0, 10000, 0, 0)

----------------------------------------------------------------------------
(* The global generator and the stream it yields *)

WindowLen == 1 .. 8

\* the next eight values of stream sd from position p: those already yielded
\* are fixed, the others are ext's
Window(t, sd, p, ext) ==
    [i \in WindowLen |-> IF p + i <= Len(t[sd]) THEN t[sd][p + i] ELSE ext[i]]

\* the stream after n values of w were drawn at position p
Yield(t, sd, p, w, n) ==
    [t EXCEPT ![sd] = IF p + n <= Len(@) THEN @
                      ELSE @ \o [i \in 1 .. (p + n - Len(@)) |-> w[Len(@) - p + i]]]

----------------------------------------------------------------------------
(* Operations *)

Init ==
    /\ state = [e \in Envs |-> None]
    /\ np_random = [e \in Envs |-> "entropy"]
    /\ ret = [e \in Envs |-> None]
    /\ acts = [e \in Envs |-> <<>>]
    /\ rng = [seed |-> "entropy", pos |-> 0]
    /\ tape = [sd \in Streams |-> <<>>]
    /\ solo = [e \in Envs |-> None]

\* a reset that carries the cash of the episode before over
ResetKeepsCash(e, sd) ==
    /\ state' = [state EXCEPT ![e] =
                    IF state[e] = None THEN InitialState
                    ELSE [InitialState EXCEPT !.cash = state[e].cash]]
    /\ np_random' = [np_random EXCEPT ![e] = sd]
    /\ ret' = [ret EXCEPT ![e] = None]
    /\ acts' = [acts EXCEPT ![e] = <<>>]
    /\ solo' = [solo EXCEPT ![e] = [state |-> InitialState, seed |-> rng.seed,
                                    pos |-> rng.pos]]
    /\ UNCHANGED <<rng, tape>>

\* env.reset(seed=sd): seeds gym's generator of e, builds the initial EnvState
Reset(e, sd) ==
    /\ state' = [state EXCEPT ![e] = InitialState]
    /\ np_random' = [np_random EXCEPT ![e] = sd]
    /\ ret' = [ret EXCEPT ![e] = None]
    /\ acts' = [acts EXCEPT ![e] = <<>>]
    /\ solo' = [solo EXCEPT ![e] = [state |-> InitialState, seed |-> rng.seed,
                                    pos |-> rng.pos]]
    /\ UNCHANGED <<rng, tape>>

\* random.seed(sd), as the runner calls it after reset
SeedGlobal(sd) ==
    /\ rng' = [seed |-> sd, pos |-> 0]
    /\ solo' = [e \in Envs |-> IF solo[e] = None THEN None
                               ELSE [solo[e] EXCEPT !.seed = sd, !.pos = 0]]
    /\ UNCHANGED <<state, np_random, ret, acts, tape>>

\* env.step(given) on environment e, given decoded to the bundle a, the
\* generator yielding a window of D
StepWith(e, a, given, D) ==
    /\ state[e] # None
    /\ \E ext \in D :
       \E w \in {Window(tape, rng.seed, rng.pos, ext)} :
       \E r \in {StepResult(state[e], a, w)} :
       \E t1 \in {Yield(tape, rng.seed, rng.pos, w, r.ndraws)} :
       \E w2 \in {Window(t1, solo[e].seed, solo[e].pos, ext)} :
       \E r2 \in {StepResult(solo[e].state, a, w2)} :
          /\ state' = [state EXCEPT ![e] = r.state]
          /\ ret' = [ret EXCEPT ![e] = r.ret]
          /\ acts' = [acts EXCEPT ![e] = Append(@, given)]
          /\ rng' = [rng EXCEPT !.pos = @ + r.ndraws]
          /\ tape' = Yield(t1, solo[e].seed, solo[e].pos, w2, r2.ndraws)
          /\ solo' = [solo EXCEPT ![e] = [state |-> r2.state, seed |-> @.seed,
                                          pos |-> @.pos + r2.ndraws]]
          /\ UNCHANGED np_random

\* env.step on a bundle that decodes to itself
Step(e, a, D) == StepWith(e, a, a, D)

----------------------------------------------------------------------------
(* Inputs *)

NoOp     == Bundle(0, "ppc", 0, 10000, 0, 0)
Grow     == Bundle(10000, "brand", 1, 10000, 8000, 5)
Overhire == Bundle(2000, "ppc", 10, 10000, 0, 0)
Splurge  == Bundle(1100000, "ppc", 0, 10000, 0, 0)
PriceMax == Bundle(0, "ppc", 0, 10000, 0, 1000)

MainActions == {NoOp, Grow, Overhire, Splurge, PriceMax}

Quiet == [i \in WindowLen |-> 1]
Fire(I) == [i \in WindowLen |-> IF i \in I THEN 0 ELSE 1]

\* at most one shock fires; the physics draws are all low or all high
MainDraws == {Fire(I \cup T) : I \in {{}, {1}, {2}, {3}}, T \in {{}, 4 .. 8}}

\* Spec: one environment, the first MaxMonths months of its first episode
Live0 == state["env1"] # None

StepMain ==
    \E a \in MainActions :
       /\ Live0
       /\ state["env1"].months_elapsed < MaxMonths
       /\ a.price_change_pct = 1000 => state["env1"].mrr \in 0 .. JumpCap
       /\ Step("env1", a, MainDraws)

ResetMain == state["env1"] = None /\ Reset("env1", "entropy")

Next == ResetMain \/ StepMain

Spec == Init /\ [][Next]_vars

\* SpecLong: one environment stepped with the no-op bundle past the horizon;
\* the interest-rate shock fires in a streak from reset on, no other shock does
StepQuiet ==
    /\ Live0
    /\ state["env1"].months_elapsed < Horizon + LongSlack
    /\ Step("env1", NoOp, {Quiet})

StepRateShock ==
    /\ Live0
    /\ state["env1"].months_elapsed < MaxStreak
    /\ state["env1"].interest_rate = 30 + 15 * state["env1"].months_elapsed
    /\ Step("env1", NoOp, {Fire({1})})

NextLong == ResetMain \/ StepQuiet \/ StepRateShock

SpecLong == Init /\ [][NextLong]_vars

\* SpecMacro: one environment stepped with the no-op bundle; the confidence
\* shock, alone or with the interest-rate shock, and the armed cascade may fire
MacroDraws(s) ==
    {Quiet, Fire({2}), Fire({1, 2})}
    \cup (IF cascade_armed(s) THEN {Fire({4}), Fire({2, 4})} ELSE {})

StepMacro ==
    /\ Live0
    /\ state["env1"].months_elapsed < MaxMacroMonths
    /\ Step("env1", NoOp, MacroDraws(state["env1"]))

NextMacro == ResetMain \/ StepMacro

SpecMacro == Init /\ [][NextMacro]_vars

\* SpecEpisodes: two environments of one process, reset with a seed and stepped
\* in any interleaving; the runner may seed the global generator in between
EpisodeDraws == {Quiet, Fire({2})}

ResetEpisode ==
    \E e \in Envs, sd \in Seeds :
       /\ state[e] = None
       /\ Reset(e, sd)

SeedEpisode ==
    /\ \E e \in Envs : state[e] # None
    /\ \E sd \in Seeds : rng # [seed |-> sd, pos |-> 0] /\ SeedGlobal(sd)

StepEpisode ==
    \E e \in Envs :
       /\ state[e] # None
       /\ state[e].months_elapsed < MaxEpisodeMonths
       /\ Step(e, NoOp, EpisodeDraws)

NextEpisodes == ResetEpisode \/ SeedEpisode \/ StepEpisode

SpecEpisodes == Init /\ [][NextEpisodes]_vars

\* SpecDegenerate: bundles the schema admits that drive a denominator of step
\* to zero: a hire at no cost, a price cut of 100 %
ZeroCostHire == Bundle(0, "ppc", 1, 0, 0, 0)
FreeFall     == Bundle(1000, "ppc", 0, 10000, 0, -100)

DegenerateActions == {NoOp, ZeroCostHire, FreeFall}

StepDegenerate ==
    \E a \in DegenerateActions :
       /\ Live0
       /\ Len(acts["env1"]) < MaxDegenerateSteps
       /\ Step("env1", a, {Quiet, Fire({1}), Fire({2}), Fire({3})})

NextDegenerate == ResetMain \/ StepDegenerate

SpecDegenerate == Init /\ [][NextDegenerate]_vars

\* SpecDecode: step handed raw action_dicts, each category absent or accepted
\* by its model, at most one rejected
Accepted(c) ==
    CASE c = "marketing" -> Mapping([spend |-> Num(2000), channel |-> "brand"])
      [] c = "hiring" -> Mapping([hires |-> Num(1), cost_per_employee |-> Num(20000)])
      [] c = "product" -> Mapping([r_and_d_spend |-> Num(8000)])
      [] c = "pricing" -> Mapping([price_change_pct |-> Num(5)])

Rejected(c) ==
    CASE c = "marketing" -> Mapping([spend |-> Num(-1), channel |-> "ppc"])
      [] c = "hiring" -> Mapping([hires |-> Num(-1), cost_per_employee |-> Num(20000)])
      [] c = "product" -> Mapping([r_and_d_spend |-> Text])
      [] c = "pricing" -> NotMapping

RawActions ==
    {Mapping([c \in S |-> IF c \in B THEN Rejected(c) ELSE Accepted(c)]) :
        S \in SUBSET Categories, B \in {{}} \cup {{c} : c \in Categories}}
    \cup {NotMapping,
          Mapping([c \in {"marketing"} |->
                     Mapping([spend |-> Num(2000), channel |-> "tv"])]),
          Mapping([c \in {"hiring"} |->
                     Mapping([hires |-> Num(1), cost_per_employee |-> Text])]),
          Mapping([c \in {"product"} |-> Mapping([r_and_d_spend |-> Num(-1)])]),
          Mapping([c \in {"marketing", "pricing"} |->
                     IF c = "marketing" THEN Mapping([spend |-> Num(2000)])
                     ELSE Accepted(c)])}

StepDecode ==
    \E d \in RawActions :
       /\ Live0
       /\ state["env1"].months_elapsed < MaxDecodeMonths
       /\ StepWith("env1", DecodeAction(d), d, {Quiet, Fire({2})})

NextDecode == ResetMain \/ StepDecode

SpecDecode == Init /\ [][NextDecode]_vars

\* SpecCash: the first step spends the balance down to 100, the second starts
\* from there
\* the bundle whose R&D spend leaves cash = target after the step from s on w
SpendDownTo(target, s, w) ==
    LET probe == StepResult(s, Bundle(0, "ppc", 0, 10000, INITIAL_CASH, 0), w)
    IN  Bundle(0, "ppc", 0, 10000, INITIAL_CASH + probe.state.cash - target, 0)

StepSpendDown ==
    /\ Live0
    /\ state["env1"].months_elapsed = 0
    /\ \E ext \in MainDraws :
          /\ Step("env1",
                  SpendDownTo(100, state["env1"],
                              Window(tape, rng.seed, rng.pos, ext)),
                  {ext})
          /\ state'["env1"].cash = 100

Payroll  == Bundle(0, "ppc", 1, 1000, 30000, 0)
Campaign == Bundle(60000, "ppc", 0, 10000, 0, 0)

StepAtHundred ==
    /\ Live0
    /\ state["env1"].months_elapsed = 1
    /\ state["env1"].cash = 100
    /\ \E ext \in MainDraws :
       \E a \in {NoOp, Payroll, Campaign,
                 SpendDownTo(0, state["env1"],
                             Window(tape, rng.seed, rng.pos, ext)),
                 SpendDownTo(1, state["env1"],
                             Window(tape, rng.seed, rng.pos, ext))} :
          Step("env1", a, {ext})

NextCash == ResetMain \/ StepSpendDown \/ StepAtHundred

SpecCash == Init /\ [][NextCash]_vars

----------------------------------------------------------------------------
(* Calls of single functions of business_logic on a constructed EnvState *)

\* the variables before a call on EnvState s: env1 holds s, nothing returned
Constructed(s) ==
    /\ state = [e \in Envs |-> IF e = "env1" THEN s ELSE None]
    /\ np_random = [e \in Envs |-> "entropy"]
    /\ ret = [e \in Envs |-> None]
    /\ acts = [e \in Envs |-> <<>>]
    /\ rng = [seed |-> "entropy", pos |-> 0]
    /\ tape = [sd \in Streams |-> <<>>]
    /\ solo = [e \in Envs |-> None]

\* the call returns r
Returns(r) ==
    /\ ret["env1"] = None
    /\ ret' = [ret EXCEPT !["env1"] = r]
    /\ UNCHANGED <<state, np_random, acts, rng, tape, solo>>

\* SpecHysteresis: the feedback modules of step, apply_hysteresis and then
\* apply_recovery, on a state whose consumer_confidence is forced each time;
\* the call returns the length of the current run of steps with confidence
\* below 50, the number of times the run multiplied innovation_factor by 0.95,
\* the EnvState apply_hysteresis was called on and the one it left, and the
\* months_in_depression the first call started from
HysteresisStates ==
    {[InitialState EXCEPT !.months_in_depression = m, !.innovation_factor = i,
                          !.unemployment = u, !.valuation_multiple = v] :
        m \in 0 .. MaxStartDepression, i \in {Scale, 9000, 5000},
        u \in {40, 90}, v \in {10 * Scale, 99800, 12 * Scale}}

InitHysteresis == \E s \in HysteresisStates : Constructed(s)

ForcedFeedback ==
    \E c \in {400, 490, 500, 1000} :
       LET prev == IF ret["env1"] = None
                   THEN [steps |-> 0, streak |-> 0, scars |-> 0,
                         forced |-> None, scarred |-> None,
                         start |-> state["env1"].months_in_depression]
                   ELSE ret["env1"]
           forced == [state["env1"] EXCEPT !.consumer_confidence = c]
           scarred == apply_hysteresis(forced)
           scar == IF scarred.innovation_factor < forced.innovation_factor
                   THEN 1 ELSE 0
       IN  /\ prev.steps < MaxForcedSteps
           /\ state' = [state EXCEPT !["env1"] = apply_recovery(scarred)]
           /\ ret' = [ret EXCEPT !["env1"] =
                        [steps |-> prev.steps + 1,
                         streak |-> IF c < 500 THEN prev.streak + 1 ELSE 0,
                         scars |-> IF c < 500 THEN prev.scars + scar ELSE 0,
                         forced |-> forced, scarred |-> scarred,
                         start |-> prev.start]]
           /\ UNCHANGED <<np_random, acts, rng, tape, solo>>

SpecHysteresis == InitHysteresis /\ [][ForcedFeedback]_vars

\* SpecChurn: compute_churn_rate on the valid states of a grid
Probabilities == {0, 300, 5000, Scale}
ChurnStates ==
    {[InitialState EXCEPT !.churn_enterprise = ce, !.churn_smb = cs,
                          !.churn_b2c = cb, !.product_quality = q,
                          !.price = p, !.months_elapsed = m,
                          !.consumer_confidence = c] :
        ce \in Probabilities, cs \in Probabilities, cb \in Probabilities,
        q \in {0, INITIAL_PRODUCT_QUALITY, Scale}, p \in {0, 5000},
        m \in {0, 12, Horizon}, c \in {400, 1000}}

InitChurn == \E s \in ChurnStates : Constructed(s)

CallChurn == Returns([churn_rate |-> compute_churn_rate(state["env1"])])

SpecChurn == InitChurn /\ [][CallChurn]_vars

\* SpecReward: compute_reward on the states of a grid, at each rule_of_40 of
\* Rule40Inputs
Rule40Inputs == {-100, -1, 0, 14, 15, 40}

RewardStates ==
    {[InitialState EXCEPT !.mrr = m, !.cac = c, !.ltv = l, !.cash = k,
                          !.innovation_factor = i, !.valuation_multiple = v] :
        m \in {0, 50000, 2000000}, c \in {0, BASE_CAC},
        l \in {0, 40, 50, 100, 150, 7000}, k \in {-5, 0, INITIAL_CASH},
        i \in {7999, 8000, Scale}, v \in {5 * Scale - 1, 5 * Scale, 10 * Scale}}

InitReward == \E s \in RewardStates : Constructed(s)

CallReward ==
    Returns([rewards |-> [r \in Rule40Inputs |->
                             compute_reward(state["env1"], r)]])

SpecReward == InitReward /\ [][CallReward]_vars

\* SpecReset: one environment reset again and again: in the middle of an
\* episode, after a step returned terminated, after a step returned truncated.
\* An episode is the no-op bundle month after month, or starts with a marketing
\* spend above the initial cash; no shock fires.
StepResetQuiet ==
    /\ Live0
    /\ state["env1"].months_elapsed < Horizon + LongSlack
    /\ rng.pos < 7 * (Horizon + LongSlack)
    /\ Step("env1", NoOp, {Quiet})

StepResetSplurge ==
    /\ Live0
    /\ state["env1"].months_elapsed = 0
    /\ rng.pos < 7 * (Horizon + LongSlack)
    /\ Step("env1", Splurge, {Quiet})

ResetAgain ==
    /\ Live0
    /\ ret["env1"] # None
    /\ \/ ret["env1"].terminated
       \/ ret["env1"].truncated
       \/ state["env1"].months_elapsed <= MaxMidEpisode
    /\ Reset("env1", "entropy")

NextReset == ResetMain \/ StepResetQuiet \/ StepResetSplurge \/ ResetAgain

SpecReset == Init /\ [][NextReset]_vars

\* SpecShocks: one call of one of the shock functions, or of the cascade, on
\* the EnvStates of a grid, with one value u / UDen from random.random()
ShockStates ==
    {[InitialState EXCEPT !.mrr = m, !.unemployment = un, !.interest_rate = ir,
                          !.valuation_multiple = v] :
        m \in {-36000000, 0, 50000, 100000, 2000000},
        un \in {80, 85}, ir \in {70, 75}, v \in {10 * Scale, 85000}}

InitShocks == \E s \in ShockStates : Constructed(s)

CallShock ==
    \E who \in {"interest_rate_shock", "consumer_confidence_shock",
                "competitive_entry_shock", "apply_recession_cascade"} :
    \E u \in 0 .. UDen - 1 :
       LET f == Frame(state["env1"], NoOp, [i \in WindowLen |-> u])
           g == CASE who = "interest_rate_shock" -> ShockInterest(f)
                  [] who = "consumer_confidence_shock" -> ShockConfidence(f)
                  [] who = "competitive_entry_shock" -> ShockEntry(f)
                  [] who = "apply_recession_cascade" -> Cascade(f)
       IN  IF who = "competitive_entry_shock" /\ ExpOverflows(f.s.mrr)
           THEN Returns([shock |-> who, u |-> u, raised |-> "OverflowError"])
           ELSE Returns([shock |-> who, u |-> u, after |-> g.s,
                         drew |-> g.drew])

SpecShocks == InitShocks /\ [][CallShock]_vars

\* SpecSlump: one environment stepped with the no-op bundle, the confidence
\* shock firing in every step; in the first months the interest-rate shock
\* may fire too, and the cascade, once armed, may fire in its first months
SlumpDraws(s) ==
    {Fire({2})}
       \cup (IF s.months_elapsed < MaxRateShocks THEN {Fire({1, 2})} ELSE {})
       \cup (IF cascade_armed(s) /\ s.months_elapsed < MaxCascadeMonth
             THEN {Fire({2, 4})} ELSE {})

StepSlump ==
    /\ Live0
    /\ state["env1"].months_elapsed < MaxSlumpMonths
    /\ Step("env1", NoOp, SlumpDraws(state["env1"]))

NextSlump == ResetMain \/ StepSlump

SpecSlump == Init /\ [][NextSlump]_vars

\* SpecMarketing: compute_new_mrr on the macro conditions of a grid; one call
\* draws the three shape parameters of a channel and returns the response at
\* each spend of SpendInputs under these same parameters
SpendInputs == {1000, 10000, 100000, 200000}

MarketingStates ==
    {[InitialState EXCEPT !.consumer_confidence = c, !.competitors = n] :
        c \in {700, 1000, 1300}, n \in {0, 5, 10}}

InitMarketing == \E s \in MarketingStates : Constructed(s)

CallNewMrr ==
    \E channel \in {"ppc", "brand"} :
    \E uAlpha \in 0 .. UDen - 1, uGamma \in 0 .. UDen - 1,
       uBeta \in 0 .. UDen - 1 :
       Returns([channel |-> channel, uAlpha |-> uAlpha, uGamma |-> uGamma,
                uBeta |-> uBeta,
                response |-> [sp \in SpendInputs |->
                    compute_new_mrr(state["env1"],
                                    Bundle(sp, channel, 0, 10000, 0, 0),
                                    uAlpha, uGamma, uBeta)]])

SpecMarketing == InitMarketing /\ [][CallNewMrr]_vars

----------------------------------------------------------------------------
(* ActionAdapter.translate_action *)

\* float("nan"): float() returns it, int() raises on it, every comparison
\* with it is false
NaN == [num |-> TRUE, nan |-> TRUE]
IsNaN(x) == "nan" \in DOMAIN x

\* m.get(k, dflt)
Field(m, k, dflt) == IF k \in DOMAIN m THEN m[k] ELSE Num(dflt)

\* max(lo, x) and min(hi, x) of Python: the first argument unless the second
\* compares greater, or less
PyMax(lo, x) == IF ~IsNaN(x) /\ x.v > lo THEN x.v ELSE lo
PyMin(hi, x) == IF ~IsNaN(x) /\ x.v < hi THEN x.v ELSE hi

\* agent_output.get(c, {})
Sub(d, c) == IF c \in DOMAIN d.items THEN d.items[c] ELSE Mapping(<<>>)

\* max(-0.5, min(1.0, pct))
clamp_pct(pct) == PyMax(-50, Num(PyMin(100, pct)))

get_noop == Bundle(0, "ppc", 0, 10000, 0, 0)

\* each category in its own try block: an exception (no .get on the
\* sub-record, float() or int() failing) puts the category's default
translate_action(d) ==
    IF ~d.mapping THEN get_noop
    ELSE LET mkt == Sub(d, "marketing")
             hire == Sub(d, "hiring")
             prod == Sub(d, "product")
             price == Sub(d, "pricing")
             mktOk == mkt.mapping /\ Field(mkt.items, "spend", 0).num
             hireOk == /\ hire.mapping
                       /\ Field(hire.items, "hires", 0).num
                       /\ ~IsNaN(Field(hire.items, "hires", 0))
                       /\ Field(hire.items, "cost_per_employee", 10000).num
             prodOk == prod.mapping /\ Field(prod.items, "r_and_d_spend", 0).num
             priceOk == /\ price.mapping
                        /\ Field(price.items, "price_change_pct", 0).num
         IN  Bundle(
               IF mktOk THEN PyMax(0, Field(mkt.items, "spend", 0)) ELSE 0,
               IF mktOk /\ "channel" \in DOMAIN mkt.items
                        /\ mkt.items.channel \in {"ppc", "brand"}
               THEN mkt.items.channel ELSE "ppc",
               IF hireOk THEN PyMax(0, Field(hire.items, "hires", 0)) ELSE 0,
               IF hireOk
               THEN PyMax(1, Field(hire.items, "cost_per_employee", 10000))
               ELSE 10000,
               IF prodOk THEN PyMax(0, Field(prod.items, "r_and_d_spend", 0))
               ELSE 0,
               IF priceOk
               THEN clamp_pct(Field(price.items, "price_change_pct", 0))
               ELSE 0)

\* the bundle b as the dict the adapter returns
AsDict(b) ==
    Mapping([c \in Categories |->
       CASE c = "marketing" ->
               Mapping([spend |-> Num(b.spend), channel |-> b.channel])
         [] c = "hiring" ->
               Mapping([hires |-> Num(b.hires),
                        cost_per_employee |-> Num(b.cost_per_employee)])
         [] c = "product" -> Mapping([r_and_d_spend |-> Num(b.r_and_d_spend)])
         [] c = "pricing" ->
               Mapping([price_change_pct |-> Num(b.price_change_pct)])])

\* SpecAdapter: translate_action on agent outputs made of every combination of
\* a category absent, well formed, negative, with a field no number can be read
\* from, with a NaN field, or no mapping at all; the call returns the clean
\* bundle and what the try block of step decodes from it
Offered(c) ==
    CASE c = "marketing" ->
            {Mapping([spend |-> Num(2000), channel |-> "brand"]),
             Mapping([spend |-> Num(-1), channel |-> "brand"]),
             Mapping([spend |-> Text, channel |-> "brand"]),
             Mapping([spend |-> NaN, channel |-> "brand"]),
             Mapping([spend |-> Num(2000), channel |-> "tv"]),
             Mapping([spend |-> Num(2000)]),
             NotMapping}
      [] c = "hiring" ->
            {Mapping([hires |-> Num(1), cost_per_employee |-> Num(20000)]),
             Mapping([hires |-> Num(-5), cost_per_employee |-> Num(20000)]),
             Mapping([hires |-> Num(1), cost_per_employee |-> Num(-5)]),
             Mapping([hires |-> Text, cost_per_employee |-> Num(20000)]),
             Mapping([hires |-> NaN, cost_per_employee |-> Num(20000)]),
             Mapping([hires |-> Num(1), cost_per_employee |-> NaN]),
             Mapping([hires |-> Num(1)]),
             NotMapping}
      [] c = "product" ->
            {Mapping([r_and_d_spend |-> Num(8000)]),
             Mapping([r_and_d_spend |-> Num(-1)]),
             Mapping([r_and_d_spend |-> Text]),
             Mapping([r_and_d_spend |-> NaN])}
      [] c = "pricing" ->
            {Mapping([price_change_pct |-> Num(5)]),
             Mapping([price_change_pct |-> Num(-200)]),
             Mapping([price_change_pct |-> Num(250)]),
             Mapping([price_change_pct |-> Text]),
             Mapping([price_change_pct |-> NaN]),
             NotMapping}

\* a category the agent left out
Absent == [absent |-> TRUE]

AgentOutputs ==
    {NotMapping} \cup
    {Mapping([c \in {k \in Categories : ch[k] # Absent} |-> ch[c]]) :
        ch \in {[marketing |-> m, hiring |-> h, product |-> p, pricing |-> r] :
                   m \in Offered("marketing") \cup {Absent},
                   h \in Offered("hiring") \cup {Absent},
                   p \in Offered("product") \cup {Absent},
                   r \in Offered("pricing") \cup {Absent}}}

CallTranslate ==
    \E d \in AgentOutputs :
       Returns([given |-> d, clean |-> translate_action(d),
                decoded |-> DecodeAction(AsDict(translate_action(d)))])

SpecAdapter == Constructed(None) /\ [][CallTranslate]_vars

\* SpecPricing: one environment stepped with bundles whose price change the
\* PricingAction model admits, down to the lower end of the declared action
\* space (-1.0) and below it; the competitive-entry shock may fire
PriceToZero    == Bundle(0, "ppc", 0, 10000, 0, -100)
PriceBelowZero == Bundle(0, "ppc", 0, 10000, 0, -150)

PricingActions == {NoOp, Campaign, PriceToZero, PriceBelowZero}

StepPricing ==
    \E a \in PricingActions :
       /\ Live0
       /\ state["env1"].months_elapsed < MaxPricingMonths
       /\ Step("env1", a, {Quiet, Fire({3})})

NextPricing == ResetMain \/ StepPricing

SpecPricing == Init /\ [][NextPricing]_vars

\* SpecRunner: the loop of run_simulation on one environment: reset, then step
\* while neither terminated nor truncated was returned; an exception out of
\* step leaves the loop and the runner. The agent either idles (the no-op
\* bundle, no shock firing), or spends more on R&D than the episode holds in
\* its first month or in its last before the horizon, or invests: brand
\* marketing and R&D for MaxInvestMonths quiet months, then the no-op bundle
\* while the interest-rate shock fires MaxRunnerShocks months in a row, then
\* the no-op bundle in quiet months. The loop is a sequential program: it
\* takes its next step whenever it has one.
Moonshot == Bundle(0, "ppc", 0, 10000, 12000000, 0)
Invest   == Bundle(200000, "brand", 0, 10000, 25000, 0)

\* the bundles the agent may return and the draws that may follow, after the
\* bundles of log
RunnerMoves(s, log) ==
    IF log # <<>> /\ log[1] = Invest
    THEN IF s.months_elapsed < MaxInvestMonths THEN {<<Invest, Quiet>>}
         ELSE IF s.interest_rate < 30 + 15 * MaxRunnerShocks
              THEN {<<NoOp, Fire({1})>>}
         ELSE {<<NoOp, Quiet>>}
    ELSE {<<NoOp, Quiet>>}
         \cup (IF s.months_elapsed = 0
               THEN {<<Invest, Quiet>>, <<Moonshot, Quiet>>} ELSE {})
         \cup (IF s.months_elapsed = Horizon - 1
               THEN {<<Moonshot, Quiet>>} ELSE {})

\* the last call of step returned terminated or truncated
Ended ==
    /\ ret["env1"] # None
    /\ "raised" \notin DOMAIN ret["env1"]
    /\ ret["env1"].terminated \/ ret["env1"].truncated

\* the last call of step raised
Crashed ==
    /\ ret["env1"] # None
    /\ "raised" \in DOMAIN ret["env1"]

RunnerStep ==
    /\ Live0
    /\ ~Ended
    /\ ~Crashed
    /\ state["env1"].months_elapsed < Horizon + LongSlack
    /\ \E m \in RunnerMoves(state["env1"], acts["env1"]) :
          Step("env1", m[1], {m[2]})

NextRunner == ResetMain \/ RunnerStep

SpecRunner ==
    Init /\ [][NextRunner]_vars /\ WF_vars(ResetMain) /\ WF_vars(RunnerStep)

----------------------------------------------------------------------------
(* Claims *)

Live(e) == state[e] # None
Returned(e) == ret[e] # None

\* this transition is a call of step on e
Stepped(e) == Live(e) /\ Len(acts'[e]) = Len(acts[e]) + 1

\* C1: in every step the amount credited to cash is the step's final MRR, the
\* MRR after the pricing effect was applied.
C1_CashCreditIsFinalMrr ==
    \A e \in Envs : Returned(e) => ret[e].collected = state[e].mrr

\* C2: once a step has returned terminated=True, every later step on the same
\* State Record returns terminated=True, and likewise for truncated=True.
C2_TerminalAbsorbing ==
    [][\A e \in Envs :
         (Stepped(e) /\ Returned(e)) =>
            /\ ret[e].terminated => ret'[e].terminated
            /\ ret[e].truncated => ret'[e].truncated]_vars

\* C6: headcount >= 1 after every step; the CFO clamp never makes the applied
\* hires negative, so no step refunds hiring cost into cash.
C6_HeadcountAtLeastOne ==
    \A e \in Envs :
       /\ Live(e) => state[e].headcount >= 1
       /\ Returned(e) => ret[e].hires >= 0 /\ ret[e].one_time_hiring_cost >= 0

\* floor of the real cash / (18 * cost)
MaxHiresFloor(cash, cost) == cash \div (18 * cost)
\* the same, rounded toward zero
MaxHiresTrunc(cash, cost) == Trunc(cash, 18 * cost)

C8_CashAccounting ==
    [][\A e \in Envs :
         Stepped(e) =>
            LET a == ret'[e].action
                applied == state'[e].headcount - state[e].headcount
            IN  state'[e].cash = state[e].cash + ret'[e].collected
                                 - applied * a.cost_per_employee
                                 - state'[e].headcount * 8000
                                 - a.spend - a.r_and_d_spend]_vars

\* a step that hired, paid salaries and spent on marketing and R&D
C8_Witness ==
    \E e \in Envs :
       /\ Returned(e)
       /\ ret[e].hires > 0
       /\ ret[e].action.spend > 0
       /\ ret[e].action.r_and_d_spend > 0
       /\ ret[e].collected > 0

\* C3: step returns truncated=True exactly when months_elapsed, after the
\* advance, has reached the horizon of the Parameter Table, MAX_STEPS.
C3_TruncatedAtMaxSteps ==
    \A e \in Envs :
       Returned(e) => (ret[e].truncated <=> state[e].months_elapsed >= MAX_STEPS)

\* C9: innovation_factor stays within [0, 1] in every reachable state.
C9_InnovationInUnitInterval ==
    \A e \in Envs :
       Live(e) => state[e].innovation_factor \in 0 .. Scale

\* a scar was applied and then a recovery step, in the same step and again in
\* the next: the factor lies strictly between two scars and 1
C9_Witness ==
    \E e \in Envs :
       /\ Live(e)
       /\ state[e].months_in_depression >= 7
       /\ state[e].innovation_factor > MulDiv(MulDiv(Scale, 95, 100), 95, 100)
       /\ state[e].innovation_factor < Scale

\* C10: churn_smb remains a probability in [0, 1] in every reachable state.
C10_ChurnSmbIsProbability ==
    \A e \in Envs :
       Live(e) => state[e].churn_smb \in 0 .. Scale

\* C4: two episodes started with reset(seed=S) for the same S and stepped with
\* the same actions are in the same state with the same reward and flags,
\* whatever ran before the resets.
C4_SeededResetDeterminism ==
    \A e1, e2 \in Envs :
       (/\ Live(e1) /\ Live(e2)
        /\ np_random[e1] \in Seeds
        /\ np_random[e1] = np_random[e2]
        /\ acts[e1] = acts[e2])
       => (state[e1] = state[e2] /\ ret[e1] = ret[e2])

\* C5: in any interleaving of the steps of two environments, the trajectory of
\* each is the one it has when run alone from its reset.
C5_EpisodesIndependent ==
    \A e \in Envs :
       Live(e) => state[e] = solo[e].state

\* C11: for every state with the three churn rates and product_quality in
\* [0, 1] and price >= 0, compute_churn_rate returns a value in [0, MAX_CHURN].
C11_ChurnRateWithinMaxChurn ==
    \A e \in Envs :
       Returned(e) => ret[e].churn_rate \in 0 .. MAX_CHURN

\* C12: for every reachable state and every schema-valid bundle, step
\* completes without raising an arithmetic error.
C12_StepNeverRaises ==
    \A e \in Envs :
       Returned(e) => "raised" \notin DOMAIN ret[e]

\* C14: every step increases months_elapsed by exactly 1, whatever the action
\* and whatever the outcome.
C14_MonthAdvancesByOne ==
    [][\A e \in Envs :
         Stepped(e) =>
            state'[e].months_elapsed = state[e].months_elapsed + 1]_vars

\* some sub-record of d, or d itself, fails decoding or validation
Malformed(d) ==
    \/ ~d.mapping
    \/ \E c \in DOMAIN d.items : ~Accepts(c, d.items[c])

\* field k of category c of the well-formed d, zero when d lacks the category
Given(d, c, k, zero) ==
    IF c \in DOMAIN d.items THEN d.items[c].items[k].v ELSE zero

\* C13: a malformed action does not make step raise: step runs with the
\* complete no-op bundle (spend 0 on ppc, 0 hires, R&D 0, price change 0); a
\* well-formed bundle that lacks a category gets that category's zero default.
C13_MalformedActionIsNoOp ==
    \A e \in Envs :
       (Returned(e) /\ acts[e] # <<>>) =>
          LET d == acts[e][Len(acts[e])]
              a == ret[e].action
          IN  /\ "raised" \notin DOMAIN ret[e]
              /\ state[e].months_elapsed = Len(acts[e])
              /\ IF Malformed(d)
                 THEN /\ a.spend = 0 /\ a.channel = "ppc" /\ a.hires = 0
                      /\ a.r_and_d_spend = 0 /\ a.price_change_pct = 0
                 ELSE /\ a.spend = Given(d, "marketing", "spend", 0)
                      /\ a.channel = IF "marketing" \in DOMAIN d.items
                                     THEN d.items.marketing.items.channel
                                     ELSE "ppc"
                      /\ a.hires = Given(d, "hiring", "hires", 0)
                      /\ a.r_and_d_spend = Given(d, "product", "r_and_d_spend", 0)
                      /\ a.price_change_pct
                            = Given(d, "pricing", "price_change_pct", 0)

\* step ran the no-op bundle on an action_dict in which one category is
\* rejected and another is accepted with a non-zero value
C13_Witness ==
    \E e \in Envs :
       /\ Returned(e) /\ acts[e] # <<>>
       /\ LET d == acts[e][Len(acts[e])]
          IN  /\ d.mapping
              /\ \E c \in DOMAIN d.items : ~Accepts(c, d.items[c])
              /\ \E c \in DOMAIN d.items : Accepts(c, d.items[c])
       /\ ret[e].action = NoOp
       /\ state[e].months_elapsed = Len(acts[e])

\* C15: in an episode with cash > 0 after every step, the first step that
\* returns truncated=True is the one in which months_elapsed reaches the
\* horizon, and that step returns terminated=False.
C15_FirstTruncationAtHorizon ==
    [][\A e \in Envs :
         Stepped(e) =>
            LET first == /\ ret'[e].truncated
                         /\ (Returned(e) => ~ret[e].truncated)
            IN  /\ first => state'[e].months_elapsed = Horizon
                /\ state'[e].months_elapsed = Horizon => first
                /\ (first /\ state'[e].cash > 0) => ~ret'[e].terminated]_vars

\* the step that reached the horizon with cash left
C15_Witness ==
    \E e \in Envs :
       /\ Returned(e)
       /\ state[e].months_elapsed = Horizon
       /\ state[e].cash > 0
       /\ ret[e].truncated /\ ~ret[e].terminated

\* salaries + marketing spend + R&D spend + hiring cost of the step returned
BurnOf(r) == r.salary_burn + r.total_spend + r.one_time_hiring_cost

\* C16, as claimed: a step that starts with cash = 100 and burns more than 100
\* returns terminated=True.
C16_BurnOverHundredTerminates ==
    [][\A e \in Envs :
         (Stepped(e) /\ state[e].cash = 100 /\ BurnOf(ret'[e]) > 100)
            => ret'[e].terminated]_vars

\* C16, amended: a step that starts with cash = 100 returns terminated=True
\* exactly when its burn is at least 100 plus the MRR it credited to cash.
C16_BurnOverCashAndRevenueTerminates ==
    [][\A e \in Envs :
         (Stepped(e) /\ state[e].cash = 100)
            => (ret'[e].terminated
                  <=> BurnOf(ret'[e]) >= 100 + ret'[e].collected)]_vars

\* a step started at cash = 100, credited MRR, burned more than both and
\* returned terminated=True
C16_Witness ==
    \E e \in Envs :
       /\ Returned(e)
       /\ state[e].cash + BurnOf(ret[e]) - ret[e].collected = 100
       /\ ret[e].collected > 0
       /\ BurnOf(ret[e]) > 100 + ret[e].collected
       /\ ret[e].terminated

ShockOrder ==
    <<"interest_rate_shock", "consumer_confidence_shock",
      "competitive_entry_shock">>

C18_SixLowMonthsScar ==
    \A e \in Envs :
       (Returned(e) /\ ret[e].streak >= 6) =>
          /\ state[e].months_in_depression >= 6
          /\ ret[e].scars >= 1

\* exactly six such steps from months_in_depression = 0: the sixth scarred
C18_Witness ==
    \E e \in Envs :
       /\ Returned(e)
       /\ ret[e].steps = 6 /\ ret[e].streak = 6
       /\ state[e].months_in_depression = 6
       /\ ret[e].scars = 1

\* C19: for a fixed state, compute_reward at rule_of_40 >= 15 exceeds
\* compute_reward at rule_of_40 < 0 by exactly the two tiers, 2 + 5, and
\* compute_reward is non-decreasing in rule_of_40.
C19_RewardMonotoneInRule40 ==
    \A e \in Envs :
       Returned(e) =>
          \A r1, r2 \in DOMAIN ret[e].rewards :
             /\ r1 <= r2 => ret[e].rewards[r1] <= ret[e].rewards[r2]
             /\ (r1 < 0 /\ r2 >= 15) =>
                   ret[e].rewards[r2] = ret[e].rewards[r1] + 7000000

\* the rewards of a state that carries other penalties, below 0 and above 15
C19_Witness ==
    \E e \in Envs :
       /\ Returned(e)
       /\ state[e].cash <= 0 /\ state[e].innovation_factor < 8000
       /\ ret[e].rewards[40] = state[e].mrr - 25000000
       /\ ret[e].rewards[-1] = state[e].mrr - 32000000

\* the penalties of the reward, in millionths: condition and amount
Penalties(s, rule_of_40) ==
    {<<"rule_of_40 < 15", rule_of_40 < 15, 2000000>>,
     <<"rule_of_40 < 0", rule_of_40 < 0, 5000000>>,
     <<"ltv/cac < 3", s.cac > 0 /\ s.ltv > 0 /\ s.ltv < 3 * s.cac, 5000000>>,
     <<"ltv/cac < 1", s.cac > 0 /\ s.ltv > 0 /\ s.ltv < s.cac, 10000000>>,
     <<"cash <= 0", s.cash <= 0, 20000000>>,
     <<"innovation_factor < 0.8", s.innovation_factor < 8000, 5000000>>,
     <<"valuation_multiple < 5", s.valuation_multiple < 5 * Scale, 2000000>>}

RECURSIVE Charged(_)
\* the sum of the penalties of P whose condition holds
Charged(P) ==
    IF P = {} THEN 0
    ELSE LET p == CHOOSE q \in P : TRUE
         IN  (IF p[2] THEN p[3] ELSE 0) + Charged(P \ {p})

\* C20: compute_reward = mrr / 1,000,000 minus the sum of every penalty whose
\* condition holds, each independent of the others; hence reward <= mrr / 1e6.
C20_RewardIsMrrMinusPenalties ==
    \A e \in Envs :
       Returned(e) =>
          \A r \in DOMAIN ret[e].rewards :
             /\ ret[e].rewards[r]
                   = state[e].mrr - Charged(Penalties(state[e], r))
             /\ ret[e].rewards[r] <= state[e].mrr

\* a state in which all seven penalties are charged at once
C20_Witness ==
    \E e \in Envs :
       /\ Returned(e)
       /\ \A p \in Penalties(state[e], -1) : p[2]
       /\ ret[e].rewards[-1] = state[e].mrr - 49000000

\* C21: whenever reset has just returned (before the first episode, in the
\* middle of one, after a terminated or a truncated step) the EnvState is the
\* same fixed record: cash 1,000,000, mrr 50,000, months_elapsed 0,
\* months_in_depression 0, innovation_factor 1.0, valuation_multiple 10.0,
\* unemployment 4.0, consumer_confidence 100, headcount 1, and every other
\* field at the value the constructor call of reset gives it; nothing of the
\* episode before survives, neither the last return value nor the action log.
JustReset(e) == Live(e) /\ ret[e] = None
C21_ResetRestoresInitialState ==
    \A e \in Envs :
       JustReset(e) =>
          /\ state[e].cash = 1000000
          /\ state[e].mrr = 50000
          /\ state[e].months_elapsed = 0
          /\ state[e].months_in_depression = 0
          /\ state[e].innovation_factor = Scale
          /\ state[e].valuation_multiple = 10 * Scale
          /\ state[e].unemployment = 40
          /\ state[e].consumer_confidence = 1000
          /\ state[e].headcount = 1
          /\ state[e] = InitialState
          /\ acts[e] = <<>>

\* reset has returned after an episode that ran to the truncation horizon
C21_Witness ==
    /\ JustReset("env1")
    /\ rng.pos >= 7 * Horizon

\* C22: a call of apply_hysteresis after which months_in_depression is 6 or
\* more has multiplied innovation_factor by 0.95, in every such call, so the
\* scar compounds over consecutive calls; a call after which the counter is
\* below 6 has left innovation_factor unchanged.
C22_ScarEveryMonthFromSix ==
    Returned("env1") =>
       LET b == ret["env1"].forced
           a == ret["env1"].scarred
       IN  a.innovation_factor =
              IF a.months_in_depression >= 6
              THEN MulDiv(b.innovation_factor, 95, 100)
              ELSE b.innovation_factor

\* the second scar in a row: the counter has passed 6 and innovation_factor,
\* already scarred, is multiplied again
C22_Witness ==
    /\ Returned("env1")
    /\ ret["env1"].scars >= 2
    /\ ret["env1"].scarred.months_in_depression > 6
    /\ ret["env1"].forced.innovation_factor < Scale
    /\ ret["env1"].scarred.innovation_factor
          = MulDiv(ret["env1"].forced.innovation_factor, 95, 100)

RecoveryFields ==
    {"innovation_factor", "valuation_multiple", "consumer_confidence"}
C24_RecoveryChangesThreeFields ==
    Returned("env1") =>
       LET b == ret["env1"].scarred
           a == state["env1"]
       IN  /\ a.innovation_factor =
                 IF b.innovation_factor < Scale THEN b.innovation_factor + 10
                 ELSE b.innovation_factor
           /\ b.valuation_multiple < 100000 =>
                 a.valuation_multiple = b.valuation_multiple + 500
           /\ b.valuation_multiple > 100000 =>
                 a.valuation_multiple = b.valuation_multiple - 500
           /\ b.valuation_multiple = 100000 => a.valuation_multiple = 100000
           /\ a.consumer_confidence =
                 IF b.consumer_confidence < 1000 /\ b.unemployment < 80
                 THEN b.consumer_confidence + 20
                 ELSE b.consumer_confidence
           /\ DOMAIN a = DOMAIN b
           /\ \A k \in DOMAIN b \ RecoveryFields : a[k] = b[k]

\* a step in which the scar was applied and recovery still moved all three
\* fields
C24_Witness ==
    /\ Returned("env1")
    /\ ret["env1"].scarred.innovation_factor
          < ret["env1"].forced.innovation_factor
    /\ state["env1"].innovation_factor
          = ret["env1"].scarred.innovation_factor + 10
    /\ state["env1"].valuation_multiple
          = ret["env1"].scarred.valuation_multiple - 500
    /\ state["env1"].consumer_confidence
          = ret["env1"].scarred.consumer_confidence + 20

\* the call of shock function who has returned normally
Called(who) ==
    /\ Returned("env1")
    /\ ret["env1"].shock = who
    /\ "raised" \notin DOMAIN ret["env1"]

\* C25: apply_recession_cascade changes the state only when unemployment is
\* above 8.0 and interest_rate above 7.0 and its draw is below 0.2: then
\* consumer_confidence loses 10, valuation_multiple is multiplied by 0.8,
\* unemployment gains 0.5 and nothing else changes; otherwise nothing changes
\* at all. The draw is made only when the precondition holds.
C25_CascadeOnlyWhenArmed ==
    Called("apply_recession_cascade") =>
       LET b == state["env1"]
           a == ret["env1"].after
           armed == b.unemployment > 80 /\ b.interest_rate > 70
           hit == ret["env1"].u * 10 < 2 * UDen
       IN  /\ armed /\ hit =>
                a = [b EXCEPT
                       !.consumer_confidence = b.consumer_confidence - 100,
                       !.valuation_multiple =
                           (b.valuation_multiple * 8) \div 10,
                       !.unemployment = b.unemployment + 5]
           /\ ~(armed /\ hit) => a = b
           /\ ret["env1"].drew =
                 IF armed THEN <<"apply_recession_cascade">> ELSE <<>>

\* the cascade fired
C25_Witness ==
    /\ Called("apply_recession_cascade")
    /\ ret["env1"].drew = <<"apply_recession_cascade">>
    /\ ret["env1"].after.unemployment = state["env1"].unemployment + 5
    /\ ret["env1"].after.consumer_confidence
          = state["env1"].consumer_confidence - 100

\* C26: interest_rate_shock, when it fires, adds 1.5 to interest_rate,
\* multiplies valuation_multiple by 0.85 and churn_smb by 1.2 and changes no
\* other field; a trial of any of the three shocks that does not fire (the
\* draw is not below the base probability for the first two, not below twice
\* the base probability for the third) leaves the state completely unchanged.
C26_RateShockEffects ==
    /\ Called("interest_rate_shock") =>
          LET b == state["env1"]
              a == ret["env1"].after
          IN  IF ret["env1"].u * 10 < UDen
              THEN a = [b EXCEPT
                          !.interest_rate = b.interest_rate + 15,
                          !.valuation_multiple =
                              (b.valuation_multiple * 85) \div 100,
                          !.churn_smb = (b.churn_smb * 12) \div 10]
              ELSE a = b
    /\ Called("consumer_confidence_shock") /\ ret["env1"].u * 10 >= UDen =>
          ret["env1"].after = state["env1"]
    /\ Called("competitive_entry_shock") /\ ret["env1"].u * 10 >= 2 * UDen =>
          ret["env1"].after = state["env1"]

\* the interest-rate shock fired
C26_Witness ==
    /\ Called("interest_rate_shock")
    /\ ret["env1"].u = 0
    /\ ret["env1"].after.interest_rate = state["env1"].interest_rate + 15
    /\ ret["env1"].after.churn_smb = 360

\* C27: competitive_entry_shock returns for every mrr and fires with
\* probability base * 2 * logistic((mrr - 50000) / 50000), base being 0.1:
\* strictly between 0 and 2 * base for every mrr, equal to base at mrr 50,000,
\* non-decreasing in mrr; when it fires competitors gain 1 and price is
\* multiplied by 0.9, and no other field changes.
C27_EntryProbability ==
    /\ Returned("env1") /\ ret["env1"].shock = "competitive_entry_shock" =>
          /\ "raised" \notin DOMAIN ret["env1"]
          /\ dynamic_prob(state["env1"].mrr) > 0
          /\ dynamic_prob(state["env1"].mrr) < Scale
          /\ competitive_entry_prob(state["env1"].mrr) <= 2 * 1000
          /\ state["env1"].mrr = 50000 =>
                competitive_entry_prob(state["env1"].mrr) = 1000
          /\ \A s \in ShockStates :
                s.mrr <= state["env1"].mrr /\ ~ExpOverflows(s.mrr) =>
                   competitive_entry_prob(s.mrr)
                      <= competitive_entry_prob(state["env1"].mrr)
          /\ LET b == state["env1"]
                 a == ret["env1"].after
             IN  \/ a = b
                 \/ a = [b EXCEPT !.competitors = b.competitors + 1,
                                  !.price = (b.price * 9) \div 10]

\* C28: unemployment stays within [0, 100] in every state an episode reaches
\* up to the truncation horizon, whatever confidence shocks and cascades fire.
C28_UnemploymentIsPercentage ==
    \A e \in Envs :
       Live(e) /\ state[e].months_elapsed <= Horizon =>
          /\ state[e].unemployment >= 0
          /\ state[e].unemployment <= 100 * 10

\* new MRR per 1,000 dollars of marketing spend at spend sp, in the call that
\* returned
Efficiency(sp) == ret["env1"].response[sp] \div (sp \div 1000)

CategoryOf(b, c) == AsDict(b).items[c].items

\* category c of agent output d is missing; is no mapping or has a numeric
\* field that is no number (unreadable, or NaN); is well formed and in range
MissingCategory(d, c) == ~d.mapping \/ c \notin DOMAIN d.items
MalformedCategory(d, c) ==
    /\ ~MissingCategory(d, c)
    /\ \/ ~d.items[c].mapping
       \/ \E k \in DOMAIN d.items[c].items \ {"channel"} :
             ~d.items[c].items[k].num \/ IsNaN(d.items[c].items[k])
CleanCategory(d, c) ==
    /\ ~MissingCategory(d, c)
    /\ ~MalformedCategory(d, c)
    /\ Accepts(c, d.items[c])
    /\ c = "hiring" => d.items[c].items.cost_per_employee.v >= 1
    /\ c = "pricing" => d.items[c].items.price_change_pct.v \in -50 .. 100

\* C30: translate_action returns, for every agent output, a bundle of all four
\* categories with spend >= 0, channel ppc or brand, hires >= 0,
\* cost_per_employee > 0, r_and_d_spend >= 0 and price_change_pct within
\* [-0.5, 1.0]; a missing or malformed category comes back as its zero default
\* (spend 0 on ppc, no hires at 10,000, R&D 0, price change 0) and a category
\* that is well formed and in range comes back as given, whatever the other
\* categories are; the try block of step decodes the adapter's output to that
\* same bundle and does not fall back to its defaults.
C30_AdapterSanitises ==
    Returned("env1") =>
       LET d == ret["env1"].given
           b == ret["env1"].clean
       IN  /\ b.spend >= 0
           /\ b.channel \in {"ppc", "brand"}
           /\ b.hires >= 0
           /\ b.cost_per_employee > 0
           /\ b.r_and_d_spend >= 0
           /\ b.price_change_pct \in -50 .. 100
           /\ \A c \in Categories :
                 /\ MissingCategory(d, c) \/ MalformedCategory(d, c) =>
                       CategoryOf(b, c)
                          = CategoryOf(Bundle(0, "ppc", 0, 10000, 0, 0), c)
                 /\ CleanCategory(d, c) => CategoryOf(b, c) = d.items[c].items
           /\ \A c \in Categories : Accepts(c, AsDict(b).items[c])
           /\ ret["env1"].decoded = b

AtCheck(s, t) == s.consumer_confidence - 20 * (t.unemployment - s.unemployment)

\* C33: the hysteresis check of a step reads consumer_confidence after that
\* step's confidence shock and cascade and before its recovery: when they take
\* confidence from 50 or above to below 50, months_in_depression is incremented
\* in the same step, also when the +2.0 of recovery brings confidence back to
\* 50 by the end of the step.
C33_CheckAfterShocksBeforeRecovery ==
    [][\A e \in Envs :
         Stepped(e) =>
            LET s == state[e]
                t == state'[e]
            IN  /\ AtCheck(s, t) < 500 =>
                      t.months_in_depression = s.months_in_depression + 1
                /\ AtCheck(s, t) >= 500 =>
                      t.months_in_depression
                         = Max(0, s.months_in_depression - 1)
                /\ t.consumer_confidence =
                      IF AtCheck(s, t) < 1000 /\ t.unemployment < 80
                      THEN AtCheck(s, t) + 20 ELSE AtCheck(s, t)]_vars

\* a shock took confidence from 68 to 48, the counter went from 0 to 1 and
\* recovery brought confidence back to 50 in the same step
C33_Witness ==
    \E e \in Envs :
       /\ Returned(e)
       /\ state[e].consumer_confidence = 500
       /\ state[e].unemployment < 80
       /\ state[e].months_in_depression = 1

\* C34: cac and ltv are recomputed in every step from that step's own values
\* and never carry over: after each step ltv = post-step price /
\* max(churn_rate of this step, 0.001), and cac = macro-scaled marketing spend /
\* (new MRR from marketing / price), which is 0 when the step produced no new
\* users.
C34_UnitEconomicsRecomputed ==
    [][\A e \in Envs :
         Stepped(e) =>
            LET t == state'[e]
                r == ret'[e]
            IN  /\ t.ltv = (t.price * 100) \div Max(r.churn_rate, 10)
                /\ r.new_mrr <= 0 => t.cac = 0
                /\ r.new_mrr > 0 /\ t.price > 0 =>
                      t.cac = scale_cac_by_macro(
                                 compute_cac(r.action.spend,
                                     estimated_new_users(r.new_mrr, t.price)),
                                 t)]_vars

\* C35: price stays strictly positive in every reachable state, for every
\* price_change_pct a PricingAction accepts and after any number of
\* competitive-entry price wars.
C35_PricePositive ==
    \A e \in Envs : Live(e) => state[e].price > 0

\* C36: no step returns terminated=True and truncated=True together.
C36_ExactlyOneTerminalFlag ==
    \A e \in Envs :
       Returned(e) /\ "raised" \notin DOMAIN ret[e] =>
          ~(ret[e].terminated /\ ret[e].truncated)

\* C37: a step returns terminated=True exactly when its reward contains the
\* -20 bankruptcy penalty: the reward is the MRR minus the other penalties
\* that apply, minus 20 when terminated and minus nothing otherwise; both read
\* the cash left after the month's spending, which is the cash returned.
C37_TerminatedIffBankruptcyPenalty ==
    \A e \in Envs :
       Returned(e) =>
          LET s == state[e]
              r == ret[e]
              others == {p \in Penalties(s, r.rule_of_40) : p[1] # "cash <= 0"}
              rest == s.mrr - Charged(others)
          IN  /\ s.cash = r.cash_at_hiring - r.one_time_hiring_cost
                             - r.salary_burn - r.total_spend
              /\ r.terminated <=> s.cash <= 0
              /\ r.terminated <=> r.reward = rest - 20000000
              /\ ~r.terminated <=> r.reward = rest

\* a step went bankrupt on its spending alone and was charged the penalty
C37_Witness ==
    /\ Returned("env1")
    /\ ret["env1"].terminated
    /\ ret["env1"].cash_at_hiring - ret["env1"].one_time_hiring_cost > 0
    /\ ret["env1"].reward = state["env1"].mrr - 20000000
          - Charged({p \in Penalties(state["env1"], ret["env1"].rule_of_40) :
                        p[1] # "cash <= 0"})

\* C38: no step lowers unemployment, interest_rate or competitors; and a step
\* that ends with unemployment at 8.0 or more, as every step does once 8.0 was
\* reached, does not raise consumer_confidence.
C38_MacroNeverEases ==
    [][\A e \in Envs :
          Stepped(e) =>
             /\ state'[e].unemployment >= state[e].unemployment
             /\ state'[e].interest_rate >= state[e].interest_rate
             /\ state'[e].competitors >= state[e].competitors
             /\ state[e].unemployment >= 80 => state'[e].unemployment >= 80
             /\ state'[e].unemployment >= 80 =>
                   state'[e].consumer_confidence
                      <= state[e].consumer_confidence]_vars

\* four confidence shocks in a row took unemployment to 8.0 and confidence to
\* 26, and a later step without a shock left confidence there
C38_Witness ==
    /\ Returned("env1")
    /\ state["env1"].unemployment = 80
    /\ state["env1"].consumer_confidence = 260
    /\ state["env1"].months_in_depression >= 3

\* C39: every episode ends: the runner's loop never takes more than 120 steps
\* after reset, and every run of it reaches a step that returns terminated or
\* truncated.
C39_EveryEpisodeEnds ==
    /\ [](Live0 => Len(acts["env1"]) <= Horizon)
    /\ <>Ended

=============================================================================
